---- MODULE Spec2Model ----
(***************************************************************************)
(* Model of parsibes.                                                      *)
(*                                                                         *)
(* 1. The template expansion pipeline (src/expansion/mod.rs, tree.rs,      *)
(*    groups.rs), specification Spec:                                      *)
(*      tokens --parse_tokenstream--> token trees --create_groups-->       *)
(*      groups --create_chunks--> chunk arena + firsts.                    *)
(* 2. The pause set of a stream (src/streams.rs), specification SpecPause: *)
(*    any sequence of pause / maybe_unpause / State::unpause calls.        *)
(* 3. The lockstep parser over several streams (src/parser/mod.rs,         *)
(*    helpers.rs, state.rs), specification SpecParser: parse_expression    *)
(*    and parse_array run step by step with an explicit call stack.        *)
(*                                                                         *)
(* Tokens are strings: "$" Dollar, "(" OpenParen, ")" CloseParen,          *)
(* "*" Star, "," Comma, "[" OpenSquare, "]" CloseSquare, "+" Plus,         *)
(* "-" Dash, ";" Semicolon, "1" "2" "3" Number, "s" String.                *)
(* An Option<Token> is a sequence of length 0 (None) or 1 (Some).          *)
(* A ChunkId is the 0-based index into the arena, as in the source; the    *)
(* arena inner is a TLA+ sequence, so chunk id lives at inner[id + 1].     *)
(* A StreamId is the 0-based index into Streams::streams likewise.         *)
(***************************************************************************)
EXTENDS Integers, Sequences, FiniteSets, TLC

VARIABLES pc, input, tokens, trees, groups, chunks, err,
          streams, counter, stack, outcome, programs, entry, calls

\* the state of the expansion pipeline
evars == <<pc, input, tokens, trees, groups, chunks, err>>
\* the state of the streams and of the parser
pvars == <<streams, counter, stack, outcome, programs, entry, calls>>

vars == <<evars, pvars>>

\* no stream has been added and no parser function called
ParserIdle ==
    /\ streams = <<>>
    /\ counter = 0
    /\ stack = <<>>
    /\ outcome = ""
    /\ programs = <<>>
    /\ entry = ""
    /\ calls = <<>>

(***************************************************************************)
(* Bounds of the explored input space.                                     *)
(***************************************************************************)
\* longest input drawn from all token sequences over RawTokens
MaxRawLen == 5
\* longest well-formed template (in tokens) written out from a token tree
MaxTemplateLen == 12

RawTokens == {"$", "(", ")", "*", "1"}

(***************************************************************************)
(* Error messages of parse_tokentree (written without the back quotes of   *)
(* the source around the token names).                                     *)
(***************************************************************************)
ErrNoToken == "Failed to parse a tokentree out of no token at all :/"
ErrExpectedParen == "Expected ( after the $"
ErrUnbalanced == "Unbalanced parentheses"
ErrExpectedStar == "Expected *"
ErrExpectedTokens == "Expected tokens :O"

(***************************************************************************)
(* Small helpers on sequences (slices of the source).                      *)
(***************************************************************************)
\* &s[n..] : the slice without its first n elements
Drop(s, n) == SubSeq(s, n + 1, Len(s))
\* &s[..n] : the first n elements
Take(s, n) == SubSeq(s, 1, n)

Range(s) == {s[i] : i \in 1..Len(s)}

(***************************************************************************)
(* tree.rs: TokenTree and the recursive-descent tree builder.              *)
(***************************************************************************)
TokenTreeToken(tok) == [kind |-> "Token", token |-> tok]
TokenTreeRepetition(repeated, separator) ==
    [kind |-> "Repetition", repeated |-> repeated, separator |-> separator]

\* Variant of scan_close that takes the end of the input for the closing
\* delimiter instead of bailing out.
RECURSIVE scan_close_to_end(_, _, _)
scan_close_to_end(inp, idx, depth) ==
    IF depth <= 0 THEN idx
    ELSE IF idx >= Len(inp) THEN idx
    ELSE LET t == inp[idx + 1]
         IN  IF t = ")" THEN scan_close_to_end(inp, idx + 1, depth - 1)
             ELSE IF t = "(" THEN scan_close_to_end(inp, idx + 1, depth + 1)
             ELSE scan_close_to_end(inp, idx + 1, depth)

\* The depth scan: while depth > 0 { match input.get(idx) ... idx += 1 }.
\* Returns the value of idx when the loop ends, or -1 when it bails out
\* with "Unbalanced parentheses".
RECURSIVE scan_close(_, _, _)
scan_close(inp, idx, depth) ==
    IF depth <= 0 THEN idx
    ELSE IF idx >= Len(inp) THEN -1
    ELSE LET t == inp[idx + 1]
         IN  IF t = ")" THEN scan_close(inp, idx + 1, depth - 1)
             ELSE IF t = "(" THEN scan_close(inp, idx + 1, depth + 1)
             ELSE scan_close(inp, idx + 1, depth)

\* Variant of split_separator without the ensure!: whatever follows the
\* separator is eaten as if it were the terminator.
split_separator_unchecked(tail) ==
    IF tail = <<>> THEN [ok |-> FALSE, err |-> ErrExpectedTokens]
    ELSE IF Head(tail) = "*"
         THEN [ok |-> TRUE, separator |-> <<>>, tail |-> Drop(tail, 1)]
    ELSE [ok |-> TRUE, separator |-> <<Head(tail)>>, tail |-> Drop(tail, 2)]

\* Variant of split_separator that eats the separator without recording it.
split_separator_dropped(tail) ==
    IF tail = <<>> THEN [ok |-> FALSE, err |-> ErrExpectedTokens]
    ELSE IF Head(tail) = "*"
         THEN [ok |-> TRUE, separator |-> <<>>, tail |-> Drop(tail, 1)]
    ELSE IF Len(tail) >= 2 /\ tail[2] = "*"
         THEN [ok |-> TRUE, separator |-> <<>>, tail |-> Drop(tail, 2)]
    ELSE [ok |-> FALSE, err |-> ErrExpectedStar]

\* The separator / terminator match on tail.split_first().
split_separator(tail) ==
    IF tail = <<>> THEN [ok |-> FALSE, err |-> ErrExpectedTokens]
    ELSE IF Head(tail) = "*"
         THEN [ok |-> TRUE, separator |-> <<>>, tail |-> Drop(tail, 1)]
    ELSE IF Len(tail) >= 2 /\ tail[2] = "*"
         THEN [ok |-> TRUE, separator |-> <<Head(tail)>>, tail |-> Drop(tail, 2)]
    ELSE [ok |-> FALSE, err |-> ErrExpectedStar]

RECURSIVE parse_tokentree(_)
RECURSIVE parse_repeated(_, _)

\* The loop while !inner_tokens.is_empty() filling repeated.
parse_repeated(inner_tokens, repeated) ==
    IF inner_tokens = <<>> THEN [ok |-> TRUE, repeated |-> repeated]
    ELSE LET r == parse_tokentree(inner_tokens)
         IN  IF r.ok THEN parse_repeated(r.rest, Append(repeated, r.tree))
             ELSE [ok |-> FALSE, err |-> r.err]

parse_tokentree(inp) ==
    IF inp = <<>> THEN [ok |-> FALSE, err |-> ErrNoToken]
    ELSE IF Head(inp) # "$"
         THEN [ok |-> TRUE, tree |-> TokenTreeToken(Head(inp)), rest |-> Drop(inp, 1)]
    ELSE LET in1 == Drop(inp, 1)
         IN  IF in1 = <<>> \/ Head(in1) # "("
             THEN [ok |-> FALSE, err |-> ErrExpectedParen]
             ELSE LET in2 == Drop(in1, 1)
                      idx == scan_close(in2, 0, 1)
                  IN  IF idx < 0 THEN [ok |-> FALSE, err |-> ErrUnbalanced]
                      ELSE LET inner_tokens == Take(in2, idx - 1)
                               sep == split_separator(Drop(in2, idx))
                           IN  IF ~sep.ok THEN [ok |-> FALSE, err |-> sep.err]
                               ELSE LET rep == parse_repeated(inner_tokens, <<>>)
                                    IN  IF ~rep.ok THEN [ok |-> FALSE, err |-> rep.err]
                                        ELSE [ok |-> TRUE,
                                              tree |-> TokenTreeRepetition(rep.repeated,
                                                                           sep.separator),
                                              rest |-> sep.tail]

(***************************************************************************)
(* groups.rs: Group and the group collapser.                               *)
(***************************************************************************)
GroupSimple(toks) == [kind |-> "Simple", tokens |-> toks]
GroupRepetition(content, separator) ==
    [kind |-> "Repetition", content |-> content, separator |-> separator]

\* Variant of flush_simple without the is_empty test: the pending buffer is
\* pushed even when it holds no token.
flush_simple_unchecked(result, current_simple) ==
    Append(result, [kind |-> "Simple", tokens |-> current_simple])

\* if !current_simple.is_empty() { result.push(Group::Simple(take(..))) }
flush_simple(result, current_simple) ==
    IF current_simple # <<>> THEN Append(result, GroupSimple(current_simple))
    ELSE result

RECURSIVE create_groups_loop(_, _, _)
RECURSIVE create_groups(_)

\* Variant of create_groups_loop that pushes a copy of the pending buffer
\* before a repetition and keeps the buffer (no mem::take).
create_groups_loop_no_take(stream, result, current_simple) ==
    IF stream = <<>> THEN flush_simple(result, current_simple)
    ELSE LET tree == Head(stream)
         IN  IF tree.kind = "Token"
             THEN create_groups_loop(Tail(stream), result,
                                     Append(current_simple, tree.token))
             ELSE create_groups_loop(
                      Tail(stream),
                      Append(flush_simple(result, current_simple),
                             GroupRepetition(create_groups(tree.repeated),
                                             tree.separator)),
                      current_simple)

\* The for-loop over stream with its two accumulators, then the final flush.
create_groups_loop(stream, result, current_simple) ==
    IF stream = <<>> THEN flush_simple(result, current_simple)
    ELSE LET tree == Head(stream)
         IN  IF tree.kind = "Token"
             THEN create_groups_loop(Tail(stream), result,
                                     Append(current_simple, tree.token))
             ELSE create_groups_loop(
                      Tail(stream),
                      Append(flush_simple(result, current_simple),
                             GroupRepetition(create_groups(tree.repeated),
                                             tree.separator)),
                      <<>>)

\* Variant of create_groups that never accumulates: every Token tree is pushed
\* as a Simple group of its own.
RECURSIVE create_groups_unmerged(_)
create_groups_unmerged(stream) ==
    IF stream = <<>> THEN <<>>
    ELSE LET tree == Head(stream)
         IN  IF tree.kind = "Token"
             THEN <<GroupSimple(<<tree.token>>)>> \o create_groups_unmerged(Tail(stream))
             ELSE <<GroupRepetition(create_groups_unmerged(tree.repeated),
                                    tree.separator)>>
                      \o create_groups_unmerged(Tail(stream))

create_groups(stream) == create_groups_loop(stream, <<>>, <<>>)

(***************************************************************************)
(* mod.rs: Chunk, Chunks (the arena) and the chunk graph builder.          *)
(***************************************************************************)
Chunk(toks, childs) == [tokens |-> toks, childs |-> childs]

ChunksNew == [inner |-> <<>>, firsts |-> <<>>]

\* Chunks::get
get(inner, id) == inner[id + 1]

\* Variant of allocate that takes the id after the push (off by one).
allocate_after_push(inner, chunk) ==
    [id |-> Len(inner) + 1, inner |-> Append(inner, chunk)]

\* Chunks::allocate: the new id is the length before the push.
allocate(inner, chunk) == [id |-> Len(inner), inner |-> Append(inner, chunk)]

RECURSIVE create_chunks(_, _, _)

\* Variant of create_chunks that builds the body of a Repetition once only:
\* the two-occurrence case (separator chunk and second build) is left out.
create_chunks_once(inner, grps, attach_to) ==
    IF grps = <<>> THEN [inner |-> inner, ids |-> attach_to]
    ELSE LET group == grps[Len(grps)]
             before == Take(grps, Len(grps) - 1)
         IN  IF group.kind = "Simple"
             THEN LET a == allocate(inner, Chunk(group.tokens, attach_to))
                  IN  create_chunks(a.inner, before, <<a.id>>)
             ELSE LET one == create_chunks(inner, group.content, attach_to)
                  IN  create_chunks(one.inner, before, attach_to \o one.ids)

\* Variant of create_chunks that builds the second occurrence against the
\* continuation of the group (attach_to) instead of attach_second_to.
create_chunks_second_on_tail(inner, grps, attach_to) ==
    IF grps = <<>> THEN [inner |-> inner, ids |-> attach_to]
    ELSE LET group == grps[Len(grps)]
             before == Take(grps, Len(grps) - 1)
         IN  IF group.kind = "Simple"
             THEN LET a == allocate(inner, Chunk(group.tokens, attach_to))
                  IN  create_chunks(a.inner, before, <<a.id>>)
             ELSE LET one == create_chunks(inner, group.content, attach_to)
                      sepc == allocate(one.inner, Chunk(group.separator, one.ids))
                      inner_two == IF group.separator # <<>> THEN sepc.inner
                                   ELSE one.inner
                      two == create_chunks(inner_two, group.content, attach_to)
                  IN  create_chunks(two.inner, before,
                                    (attach_to \o one.ids) \o two.ids)

\* Variant of create_chunks whose separator chunk gets the continuation of the
\* group (attach_to) as children instead of case_one_ids.
create_chunks_sep_on_tail(inner, grps, attach_to) ==
    IF grps = <<>> THEN [inner |-> inner, ids |-> attach_to]
    ELSE LET group == grps[Len(grps)]
             before == Take(grps, Len(grps) - 1)
         IN  IF group.kind = "Simple"
             THEN LET a == allocate(inner, Chunk(group.tokens, attach_to))
                  IN  create_chunks(a.inner, before, <<a.id>>)
             ELSE LET one == create_chunks(inner, group.content, attach_to)
                      sepc == allocate(one.inner, Chunk(group.separator, attach_to))
                      inner_two == IF group.separator # <<>> THEN sepc.inner
                                   ELSE one.inner
                      attach_second_to == IF group.separator # <<>> THEN <<sepc.id>>
                                          ELSE one.ids
                      two == create_chunks(inner_two, group.content, attach_second_to)
                  IN  create_chunks(two.inner, before,
                                    (attach_to \o one.ids) \o two.ids)

\* Variant of create_chunks that extends attach_to with case_two_ids before
\* case_one_ids.
create_chunks_two_first(inner, grps, attach_to) ==
    IF grps = <<>> THEN [inner |-> inner, ids |-> attach_to]
    ELSE LET group == grps[Len(grps)]
             before == Take(grps, Len(grps) - 1)
         IN  IF group.kind = "Simple"
             THEN LET a == allocate(inner, Chunk(group.tokens, attach_to))
                  IN  create_chunks(a.inner, before, <<a.id>>)
             ELSE LET one == create_chunks(inner, group.content, attach_to)
                      sepc == allocate(one.inner, Chunk(group.separator, one.ids))
                      inner_two == IF group.separator # <<>> THEN sepc.inner
                                   ELSE one.inner
                      attach_second_to == IF group.separator # <<>> THEN <<sepc.id>>
                                          ELSE one.ids
                      two == create_chunks(inner_two, group.content, attach_second_to)
                  IN  create_chunks(two.inner, before,
                                    (attach_to \o two.ids) \o one.ids)

\* Variant of create_chunks that builds the body a third time, against the
\* entries of the second build.
create_chunks_thrice(inner, grps, attach_to) ==
    IF grps = <<>> THEN [inner |-> inner, ids |-> attach_to]
    ELSE LET group == grps[Len(grps)]
             before == Take(grps, Len(grps) - 1)
         IN  IF group.kind = "Simple"
             THEN LET a == allocate(inner, Chunk(group.tokens, attach_to))
                  IN  create_chunks(a.inner, before, <<a.id>>)
             ELSE LET one == create_chunks(inner, group.content, attach_to)
                      sepc == allocate(one.inner, Chunk(group.separator, one.ids))
                      inner_two == IF group.separator # <<>> THEN sepc.inner
                                   ELSE one.inner
                      attach_second_to == IF group.separator # <<>> THEN <<sepc.id>>
                                          ELSE one.ids
                      two == create_chunks(inner_two, group.content, attach_second_to)
                      three == create_chunks(two.inner, group.content, two.ids)
                  IN  create_chunks(three.inner, before,
                                    ((attach_to \o one.ids) \o two.ids) \o three.ids)

\* Variant of create_chunks that does not extend attach_to with case_two_ids.
create_chunks_two_unattached(inner, grps, attach_to) ==
    IF grps = <<>> THEN [inner |-> inner, ids |-> attach_to]
    ELSE LET group == grps[Len(grps)]
             before == Take(grps, Len(grps) - 1)
         IN  IF group.kind = "Simple"
             THEN LET a == allocate(inner, Chunk(group.tokens, attach_to))
                  IN  create_chunks(a.inner, before, <<a.id>>)
             ELSE LET one == create_chunks(inner, group.content, attach_to)
                      sepc == allocate(one.inner, Chunk(group.separator, one.ids))
                      inner_two == IF group.separator # <<>> THEN sepc.inner
                                   ELSE one.inner
                      attach_second_to == IF group.separator # <<>> THEN <<sepc.id>>
                                          ELSE one.ids
                      two == create_chunks(inner_two, group.content, attach_second_to)
                  IN  create_chunks(two.inner, before, attach_to \o one.ids)

\* inner is the arena being filled (the &mut Chunks); the result holds the
\* arena after the call and the returned attach_to.
create_chunks(inner, grps, attach_to) ==
    IF grps = <<>> THEN [inner |-> inner, ids |-> attach_to]
    ELSE LET group == grps[Len(grps)]                  \* .rev()
             before == Take(grps, Len(grps) - 1)
         IN  IF group.kind = "Simple"
             THEN LET a == allocate(inner, Chunk(group.tokens, attach_to))
                  IN  create_chunks(a.inner, before, <<a.id>>)
             ELSE LET one == create_chunks(inner, group.content, attach_to)
                      case_one_ids == one.ids
                      attach_one == attach_to \o case_one_ids
                      sepc == allocate(one.inner,
                                       Chunk(group.separator, case_one_ids))
                      inner_two == IF group.separator # <<>> THEN sepc.inner
                                   ELSE one.inner
                      attach_second_to == IF group.separator # <<>> THEN <<sepc.id>>
                                          ELSE case_one_ids
                      two == create_chunks(inner_two, group.content, attach_second_to)
                  IN  create_chunks(two.inner, before, attach_one \o two.ids)

(***************************************************************************)
(* Input domain.                                                           *)
(***************************************************************************)
RECURSIVE SeqsUpTo(_, _)
SeqsUpTo(S, n) ==
    IF n = 0 THEN {<<>>}
    ELSE LET shorter == SeqsUpTo(S, n - 1)
         IN  shorter \cup {Append(s, x) : s \in {t \in shorter : Len(t) = n - 1}, x \in S}

RawInputs == SeqsUpTo(RawTokens, MaxRawLen)

\* The inputs of the tests of mod.rs, groups.rs and tree.rs.
TestSimple == <<"[", "1", ",", "2", ",", "3", "]">>
TestMild == <<"[", "$", "(", "1", ")", ",", "*", "]">>
TestComplex == <<"[", "$", "(", "1", ",", "$", "(", "3", ",", ")", "*", ")", ",", "*", "]">>
TestGroups == <<"[", "$", "(", "1", ",", "$", "(", "3", ",", ")", "*", ",", ")", ",", "*", "]">>
TestTree == <<"[", "$", "(", "1", ",", "2", ")", ",", "*", "]">>
TestInputs == {TestSimple, TestMild, TestComplex, TestGroups, TestTree}

\* The surface syntax of a token tree sequence (spec section 6):
\* a Token tree is its token, a Repetition is $ ( body ) [separator] *.
RECURSIVE write_trees(_)
write_tree(tree) ==
    IF tree.kind = "Token" THEN <<tree.token>>
    ELSE <<"$", "(">> \o write_trees(tree.repeated) \o <<")">>
             \o tree.separator \o <<"*">>

write_trees(stream) ==
    IF stream = <<>> THEN <<>>
    ELSE write_tree(Head(stream)) \o write_trees(Tail(stream))

TemplateTokens == {"1"}
TemplateSeparators == {<<>>, <<",">>, <<"1">>}

\* table[n + 1] is the set of token tree sequences written in exactly n tokens
\* (tokens from TemplateTokens, separators from TemplateSeparators); the
\* table is filled for n = Len(table) .. MaxTemplateLen.
RECURSIVE TreeSeqTable(_)
TreeSeqTable(table) ==
    LET n == Len(table)
        RepsOfLen(m) ==
            {TokenTreeRepetition(body, sep) :
                 sep \in {x \in TemplateSeparators : m - 4 - Len(x) >= 0},
                 body \in UNION {table[k + 1] : k \in {m - 4, m - 5} \cap (0..(n - 1))}}
        RepFirst(m) ==
            {<<r>> \o rest : r \in {x \in RepsOfLen(m) : Len(write_tree(x)) = m},
                             rest \in table[n - m + 1]}
        TokenFirst ==
            {<<TokenTreeToken(t)>> \o rest : t \in TemplateTokens, rest \in table[n]}
    IN  IF n > MaxTemplateLen THEN table
        ELSE TreeSeqTable(Append(table,
                 TokenFirst \cup UNION {RepFirst(m) : m \in 4..n}))

TemplateInputs ==
    LET table == TreeSeqTable(<<{<<>>}>>)
    IN  {write_trees(ts) : ts \in UNION {table[i] : i \in 1..Len(table)}}

Inputs == RawInputs \cup TestInputs \cup TemplateInputs

(***************************************************************************)
(* The state machine: one run of of() on one input.                        *)
(***************************************************************************)
Init ==
    /\ input \in Inputs
    /\ tokens = input
    /\ pc = "parse"
    /\ trees = <<>>
    /\ groups = <<>>
    /\ chunks = ChunksNew
    /\ err = ""
    /\ ParserIdle

\* parse_tokenstream: one iteration of the loop, parse_tokentree succeeds.
ParseTree ==
    /\ pc = "parse"
    /\ tokens # <<>>
    /\ LET r == parse_tokentree(tokens)
       IN  /\ r.ok
           /\ tokens' = r.rest
           /\ trees' = Append(trees, r.tree)
    /\ UNCHANGED <<pc, input, groups, chunks, err>>
    /\ UNCHANGED pvars

\* parse_tokenstream: parse_tokentree fails, the ? operator returns the error out of of().
ParseFail ==
    /\ pc = "parse"
    /\ tokens # <<>>
    /\ LET r == parse_tokentree(tokens)
       IN  /\ ~r.ok
           /\ err' = r.err
    /\ pc' = "failed"
    /\ UNCHANGED <<input, tokens, trees, groups, chunks>>
    /\ UNCHANGED pvars

\* parse_tokenstream returned Ok(trees); of() calls create_groups.
CreateGroups ==
    /\ pc = "parse"
    /\ tokens = <<>>
    /\ groups' = create_groups(trees)
    /\ pc' = "groups"
    /\ UNCHANGED <<input, tokens, trees, chunks, err>>
    /\ UNCHANGED pvars

\* of() builds the arena and records the firsts.
CreateChunks ==
    /\ pc = "groups"
    /\ LET result == create_chunks(ChunksNew.inner, groups, <<>>)
       IN  chunks' = [inner |-> result.inner, firsts |-> result.ids]
    /\ pc' = "done"
    /\ UNCHANGED <<input, tokens, trees, groups, err>>
    /\ UNCHANGED pvars

Next == ParseTree \/ ParseFail \/ CreateGroups \/ CreateChunks

Spec == Init /\ [][Next]_vars

(***************************************************************************)
(* Properties.                                                             *)
(***************************************************************************)
NoDuplicates(s) == \A i, j \in 1..Len(s) : s[i] = s[j] => i = j

\* C2 as stated: for any template without the repetition marker, of()
\* returns an arena with exactly one chunk holding all the input tokens, with
\* no children, whose id is the only entry of the firsts.
C2_SingleChunk ==
    (pc = "done" /\ "$" \notin Range(input))
        => chunks = [inner |-> <<Chunk(input, <<>>)>>, firsts |-> <<0>>]

\* C2 amended: the same for any template without the repetition marker that
\* holds at least one token (the empty template yields an empty arena and an
\* empty firsts).
C2_SingleChunkNonEmpty ==
    (pc = "done" /\ "$" \notin Range(input) /\ input # <<>>)
        => chunks = [inner |-> <<Chunk(input, <<>>)>>, firsts |-> <<0>>]

C2_Witness ==
    /\ pc = "done"
    /\ "$" \notin Range(input)
    /\ Len(input) >= 3
    /\ chunks.firsts = <<0>>

\* C3: in every returned arena each id in a chunk's child list is strictly
\* smaller than the chunk's own id (children are allocated before parents),
\* so following children strictly decreases the id and the graph is acyclic.
C3_ChildsAllocatedFirst ==
    pc = "done" =>
        \A id \in 0..(Len(chunks.inner) - 1) :
            \A k \in 1..Len(get(chunks.inner, id).childs) :
                /\ get(chunks.inner, id).childs[k] >= 0
                /\ get(chunks.inner, id).childs[k] < id

C3_Witness ==
    /\ pc = "done"
    /\ Len(chunks.inner) >= 5
    /\ \E id \in 0..(Len(chunks.inner) - 1) :
           Cardinality(Range(get(chunks.inner, id).childs)) >= 3

\* C5: child lists and the firsts are sets: no chunk's child list holds the
\* same id twice and the firsts hold no id twice, for every accepted template.
C5_NoDuplicateIds ==
    pc = "done" =>
        /\ NoDuplicates(chunks.firsts)
        /\ \A i \in 1..Len(chunks.inner) : NoDuplicates(chunks.inner[i].childs)

\* The number of chunks C7 predicts for a group sequence.
RECURSIVE ChunkCount(_)
ChunkCount(grps) ==
    IF grps = <<>> THEN 0
    ELSE LET g == Head(grps)
         IN  (IF g.kind = "Simple" THEN 1
              ELSE 2 * ChunkCount(g.content) + Len(g.separator))
             + ChunkCount(Tail(grps))

\* The arena of test_expansion_mild.
MildArena ==
    [inner |-> << Chunk(<<"]">>, <<>>),
                  Chunk(<<"1">>, <<0>>),
                  Chunk(<<",">>, <<1>>),
                  Chunk(<<"1">>, <<2>>),
                  Chunk(<<"[">>, <<0, 1, 3>>) >>,
     firsts |-> <<4>>]

\* C7: the arena holds 1 chunk per Simple group and 2 x (chunks of the body)
\* + (1 if separator) per Repetition group; a sequence that starts with a
\* Simple group has that group's chunk, the last one allocated, as its only
\* first; [$(1),*] gives the 5 chunks of test_expansion_mild and
\* [$(1, $(3,)*),*] gives 9 chunks with the [ chunk as the single first.
C7_ChunkCount ==
    pc = "done" =>
        /\ Len(chunks.inner) = ChunkCount(groups)
        /\ (groups # <<>> /\ groups[1].kind = "Simple")
               => /\ chunks.firsts = <<Len(chunks.inner) - 1>>
                  /\ get(chunks.inner, Len(chunks.inner) - 1).tokens = groups[1].tokens
        /\ input = TestMild => chunks = MildArena
        /\ input = TestComplex
               => /\ Len(chunks.inner) = 9
                  /\ chunks.firsts = <<8>>
                  /\ get(chunks.inner, 8) = Chunk(<<"[">>, <<0, 3, 7>>)

C7_Witness ==
    /\ pc = "done"
    /\ input = TestComplex
    /\ Len(chunks.inner) = 9

\* a group sequence in which, at every nesting level, no two Simple groups are
\* adjacent and every Simple group holds at least one token
RECURSIVE Collapsed(_)
Collapsed(grps) ==
    /\ \A i \in 1..Len(grps) :
           IF grps[i].kind = "Simple" THEN grps[i].tokens # <<>>
           ELSE Collapsed(grps[i].content)
    /\ \A i \in 1..(Len(grps) - 1) :
           ~(grps[i].kind = "Simple" /\ grps[i + 1].kind = "Simple")

\* C10: at every nesting level of the output of create_groups no two Simple
\* groups are adjacent and every Simple group holds at least one token.
C10_NoAdjacentSimple == pc \in {"groups", "done"} => Collapsed(groups)

C10_Witness ==
    /\ pc = "groups"
    /\ \E i \in 2..(Len(groups) - 1) :
           /\ groups[i].kind = "Repetition"
           /\ groups[i - 1].kind = "Simple" /\ Len(groups[i - 1].tokens) >= 2
           /\ groups[i + 1].kind = "Simple"
           /\ \E k \in 1..Len(groups[i].content) : groups[i].content[k].kind = "Simple"

(***************************************************************************)
(* Nesting depth of ( and ), counted on the tokens themselves.             *)
(***************************************************************************)
\* number of positions of s in from..to holding token t
CountIn(s, from, to, t) == Cardinality({k \in from..to : k <= Len(s) /\ s[k] = t})

\* nesting depth after reading s[from..to], having started at depth 1
DepthAt(s, from, to) == 1 + CountIn(s, from, to, "(") - CountIn(s, from, to, ")")

\* a $( opens at position i of s
OpensAt(s, i) == i + 1 <= Len(s) /\ s[i] = "$" /\ s[i + 1] = "("

\* a $( opens at position i and the depth never returns to zero before the end
Unterminated(s, i) ==
    /\ OpensAt(s, i)
    /\ \A j \in (i + 2)..Len(s) : DepthAt(s, i + 2, j) > 0

\* a $( opens at position i and closes: the position of its closing delimiter
Terminated(s, i) == OpensAt(s, i) /\ ~Unterminated(s, i)
ClosePos(s, i) ==
    CHOOSE j \in (i + 2)..Len(s) :
        /\ DepthAt(s, i + 2, j) = 0
        /\ \A k \in (i + 2)..(j - 1) : DepthAt(s, i + 2, k) > 0

HasUnterminated(s) == \E i \in 1..Len(s) : Unterminated(s, i)
FirstUnterminated(s) ==
    CHOOSE i \in 1..Len(s) :
        /\ Unterminated(s, i)
        /\ \A k \in 1..(i - 1) : ~Unterminated(s, k)

\* the position in input of the first token not yet consumed by the top-level loop
ParsePos == Len(input) - Len(tokens) + 1

\* of() returned Ok: the parse is over (or about to hand over) with no error
Accepted == pc \in {"groups", "done"} \/ (pc = "parse" /\ tokens = <<>>)

\* C8 as stated: a template with a $( whose nesting depth never returns to
\* zero before the input ends always fails with "Unbalanced parentheses", and
\* of() returns no arena.
C8_UnbalancedError ==
    HasUnterminated(input) =>
        /\ ~Accepted
        /\ chunks = ChunksNew
        /\ pc = "failed" => err = ErrUnbalanced

\* C8 amended: such a template always fails and of() returns no arena; the
\* parser never gets past the first unterminated $(, and the error is
\* "Unbalanced parentheses" when the failing tree is that $( itself (a tree
\* before it that fails returns its own error instead).
C8_FailsAtOrBeforeUnterminated ==
    HasUnterminated(input) =>
        /\ ~Accepted
        /\ chunks = ChunksNew
        /\ ParsePos <= FirstUnterminated(input)
        /\ (pc = "failed" /\ ParsePos = FirstUnterminated(input))
               => err = ErrUnbalanced
        /\ (pc = "parse" /\ ParsePos = FirstUnterminated(input))
               => ~parse_tokentree(tokens).ok

C8_Witness ==
    /\ pc = "failed"
    /\ err = ErrUnbalanced
    /\ HasUnterminated(input)
    /\ trees # <<>>
    /\ ParsePos = FirstUnterminated(input)

\* One step of the parser on a repetition group at the head of the remaining tokens whose
\* closing delimiter is found, one step of the parser behaves as follows.
\* Next token * : if the group is accepted it has no separator and parsing
\* resumes after the *.  Next token not * but followed by * : if the group is
\* accepted that token is its separator and parsing resumes after the *.
\* Next token not * and not followed by * (or nothing after it): the step
\* fails with "Expected *".  Closing delimiter last: the step fails.
C9_Step ==
    (pc = "parse" /\ Terminated(tokens, 1)) =>
        LET after == Drop(tokens, ClosePos(tokens, 1))
            accepted == pc' = "parse" /\ trees' # trees
            tree == trees'[Len(trees')]
        IN  /\ pc' \in {"parse", "failed"}
            /\ (after # <<>> /\ after[1] = "*" /\ accepted)
                   => /\ tree.kind = "Repetition"
                      /\ tree.separator = <<>>
                      /\ tokens' = Drop(after, 1)
            /\ (Len(after) >= 2 /\ after[1] # "*" /\ after[2] = "*" /\ accepted)
                   => /\ tree.kind = "Repetition"
                      /\ tree.separator = <<after[1]>>
                      /\ tokens' = Drop(after, 2)
            /\ (after # <<>> /\ after[1] # "*" /\ (Len(after) < 2 \/ after[2] # "*"))
                   => pc' = "failed" /\ err' = ErrExpectedStar
            /\ after = <<>> => pc' = "failed" /\ err' = ErrExpectedTokens

\* C9: after the closing delimiter of a repetition group, * means no
\* separator; otherwise that one token is the separator and the token after
\* it must be *.  A group whose closing delimiter is followed by a token
\* other than * that is not itself followed by * fails with "Expected *",
\* and a group whose closing delimiter is the last token fails as well.
\* Stated of every step of the top-level loop (C9_Step).
C9_SeparatorAndTerminator == [][C9_Step]_vars

C9_Witness ==
    /\ pc = "failed"
    /\ err = ErrExpectedStar
    /\ Terminated(tokens, 1)
    /\ LET after == Drop(tokens, ClosePos(tokens, 1))
       IN  Len(after) >= 2 /\ after[1] # "*" /\ after[2] # "*"

(***************************************************************************)
(* Where each chunk comes from.  create_chunks allocates deterministically, *)
(* so the group a chunk was built from follows from the allocation order:  *)
(* groups last to first; for a Repetition the first build of the body,     *)
(* then the separator chunk if any, then the second build of the body.     *)
(* A label holds the position of the group in the group tree (path), the   *)
(* build (1 or 2) of each enclosing Repetition (occ), and the kind.        *)
(***************************************************************************)
RECURSIVE ChunkOrigins(_, _, _)
ChunkOrigins(grps, path, occ) ==
    IF grps = <<>> THEN <<>>
    ELSE LET i == Len(grps)
             group == grps[i]
             here == path \o <<i>>
             mine == IF group.kind = "Simple"
                     THEN <<[path |-> here, occ |-> occ, kind |-> "simple"]>>
                     ELSE ChunkOrigins(group.content, here, occ \o <<1>>)
                          \o (IF group.separator # <<>>
                              THEN <<[path |-> here, occ |-> occ, kind |-> "sep"]>>
                              ELSE <<>>)
                          \o ChunkOrigins(group.content, here, occ \o <<2>>)
         IN  mine \o ChunkOrigins(Take(grps, i - 1), path, occ)

Origins == ChunkOrigins(groups, <<>>, <<>>)

RECURSIVE GroupAt(_, _)
GroupAt(grps, path) ==
    IF Len(path) = 1 THEN grps[path[1]]
    ELSE GroupAt(grps[path[1]].content, Tail(path))

IsPrefix(a, b) == Len(a) <= Len(b) /\ Take(b, Len(a)) = a

\* chunk id was built from the body of the Repetition instance labelled rep,
\* in its build number k
InBody(id, rep, k) ==
    LET l == Origins[id + 1]
    IN  /\ Len(l.path) > Len(rep.path)
        /\ IsPrefix(rep.path, l.path)
        /\ IsPrefix(rep.occ \o <<k>>, l.occ)

Ids == 0..(Len(chunks.inner) - 1)
Childs(id) == Range(get(chunks.inner, id).childs)
Parents(id) == {p \in Ids : id \in Childs(p)}

\* The separator chunk sep sits strictly between the two builds of the body
\* of its group: it holds the one separator token, it is no first, all its
\* parents are chunks of the second build and all its children chunks of the
\* first build, and no chunk of the second build is left without passing it.
SeparatorBetweenBodies(sep) ==
    LET rep == Origins[sep + 1]
    IN  /\ get(chunks.inner, sep).tokens = GroupAt(groups, rep.path).separator
        /\ Len(get(chunks.inner, sep).tokens) = 1
        /\ sep \notin Range(chunks.firsts)
        /\ Parents(sep) # {}
        /\ \A p \in Parents(sep) : InBody(p, rep, 2)
        /\ Childs(sep) # {}
        /\ \A c \in Childs(sep) : InBody(c, rep, 1)
        /\ \A b \in {x \in Ids : InBody(x, rep, 2)} :
               /\ Childs(b) # {}
               /\ \A c \in Childs(b) : c = sep \/ InBody(c, rep, 2)

HasSimple(grps) == \E i \in 1..Len(grps) : grps[i].kind = "Simple"

SeparatorIds == {id \in Ids : Origins[id + 1].kind = "sep"}

\* C4 as stated: for every repetition group with a separator, whatever its
\* body, the separator chunk holds exactly the separator token and lies
\* strictly between two chunks built from the body on every path through
\* two occurrences (never a first or an entry of the group, never directly
\* followed by what comes after the group).
C4_SeparatorIsolated ==
    pc = "done" =>
        /\ Len(Origins) = Len(chunks.inner)
        /\ \A sep \in SeparatorIds : SeparatorBetweenBodies(sep)

\* C4 amended: the same for every repetition group with a separator whose
\* body holds at least one plain token at its top level (a Simple group in
\* its content); a body that is empty or made only of nested repetition
\* groups can expand to nothing, and then the separator chunk is an entry of
\* the group and is followed by what comes after the group.
C4_SeparatorIsolatedNonEmptyBody ==
    pc = "done" =>
        /\ Len(Origins) = Len(chunks.inner)
        /\ \A sep \in SeparatorIds :
               HasSimple(GroupAt(groups, Origins[sep + 1].path).content)
                   => SeparatorBetweenBodies(sep)

C4_Witness ==
    /\ pc = "done"
    /\ \E sep \in SeparatorIds :
           LET g == GroupAt(groups, Origins[sep + 1].path)
           IN  /\ HasSimple(g.content)
               /\ \E i \in 1..Len(g.content) :
                      /\ g.content[i].kind = "Repetition"
                      /\ g.content[i].separator # <<>>
               /\ SeparatorBetweenBodies(sep)
               /\ Len(Origins[sep + 1].path) = 1
               /\ Origins[sep + 1].path[1] < Len(groups)

(***************************************************************************)
(* The token sequences of the graph and of the template.                   *)
(***************************************************************************)
\* the token sequences spelled by the paths from chunk id to a chunk with no
\* children
RECURSIVE Spelled(_)
Spelled(id) ==
    LET c == get(chunks.inner, id)
    IN  IF c.childs = <<>> THEN {c.tokens}
        ELSE {c.tokens \o rest : rest \in UNION {Spelled(k) : k \in Range(c.childs)}}

\* ... by the paths from a first entry; the empty expansion needs no chunk
\* at all and is counted as spelled by every graph
SpelledFromFirsts == {<<>>} \cup UNION {Spelled(id) : id \in Range(chunks.firsts)}

Concat(A, B) == {a \o b : a \in A, b \in B}

\* the expansions of a group sequence with every repetition group occurring
\* 0, 1 or 2 times
RECURSIVE Expand(_)
Expand(grps) ==
    IF grps = <<>> THEN {<<>>}
    ELSE LET g == Head(grps)
             body == Expand(g.content)
             first == IF g.kind = "Simple" THEN {g.tokens}
                      ELSE {<<>>} \cup body
                               \cup Concat(body, Concat({g.separator}, body))
         IN  Concat(first, Expand(Tail(grps)))

\* the expansions in which the repetition group at position path of the group
\* tree occurs zero times in one occurrence of what encloses it
RECURSIVE ExpandSkipping(_, _)
ExpandSkipping(grps, path) ==
    LET i == path[1]
        g == grps[i]
        body == Expand(g.content)
        skipped == ExpandSkipping(g.content, Tail(path))
        middle == IF Len(path) = 1 THEN {<<>>}
                  ELSE skipped
                           \cup Concat(skipped, Concat({g.separator}, body))
                           \cup Concat(body, Concat({g.separator}, skipped))
    IN  Concat(Expand(Take(grps, i - 1)), Concat(middle, Expand(Drop(grps, i))))

\* the positions of the repetition groups in a group tree
RECURSIVE RepetitionPaths(_)
RepetitionPaths(grps) ==
    UNION {IF grps[i].kind = "Simple" THEN {}
           ELSE {<<i>>} \cup {<<i>> \o q : q \in RepetitionPaths(grps[i].content)} :
           i \in 1..Len(grps)}

\* C1: for every repetition group of every accepted template the graph has
\* a path from a first entry to a chunk with no children that spells an
\* expansion in which that group occurs zero times, wherever the group
\* stands (also when nothing follows it).
C1_SkipAlwaysPossible ==
    pc = "done" =>
        \A path \in RepetitionPaths(groups) :
            ExpandSkipping(groups, path) \cap SpelledFromFirsts # {}

\* C6: no two chunk ids denote chunks with the same token list and the same
\* child list; and for every top-level repetition group the chunks of what
\* follows it are allocated once, before the group's own chunks, and are
\* entered by the zero-, one- and two-occurrence paths through the same ids,
\* the entries of what follows.
C6_SharedTail ==
    pc = "done" =>
        /\ \A a, b \in Ids : get(chunks.inner, a) = get(chunks.inner, b) => a = b
        /\ Len(Origins) = Len(chunks.inner)
        /\ \A i \in 1..Len(groups) :
               groups[i].kind = "Repetition" =>
                   LET tail == create_chunks(<<>>, Drop(groups, i), <<>>)
                       upto == create_chunks(<<>>, Drop(groups, i - 1), <<>>)
                       n == Len(tail.inner)
                       own == n..(Len(upto.inner) - 1)
                   IN  /\ Take(chunks.inner, n) = tail.inner
                       /\ \A id \in Ids : Origins[id + 1].path[1] > i <=> id < n
                       /\ Take(upto.ids, Len(tail.ids)) = tail.ids
                       /\ \A id \in own :
                              /\ Origins[id + 1].path[1] = i
                              /\ Childs(id) \cap (0..(n - 1)) \subseteq Range(tail.ids)
                              /\ tail.ids # <<>> => Childs(id) # {}
                       /\ \A id \in Range(upto.ids) : id \in own \/ id \in Range(tail.ids)

C6_Witness ==
    /\ pc = "done"
    /\ Len(groups) >= 3
    /\ groups[2].kind = "Repetition"
    /\ groups[2].separator # <<>>
    /\ \E k \in 1..Len(groups[2].content) : groups[2].content[k].kind = "Repetition"
    /\ HasSimple(groups[2].content)
    /\ Cardinality(Parents(Len(create_chunks(<<>>, Drop(groups, 2), <<>>).inner) - 1)) >= 2

(***************************************************************************)
(* What create_chunks returns for one group.                               *)
(***************************************************************************)
\* C14: for every top-level group of an accepted template, with A the entries
\* returned for what follows it: a Simple group allocates exactly one chunk,
\* holding the group's tokens with children A, and returns the singleton of
\* its id; a Repetition group returns A, then the entries of the build of its
\* body against A, then the entries of the second build of its body (against
\* the separator chunk, or against the first build's entries when there is no
\* separator), in this order; the separator chunk has the first build's
\* entries as children, and the returned list is what the preceding Simple
\* chunk (or firsts) receives.
C14_ReturnedEntries ==
    pc = "done" =>
        \A i \in 1..Len(groups) :
            LET tail == create_chunks(<<>>, Drop(groups, i), <<>>)
                upto == create_chunks(<<>>, Drop(groups, i - 1), <<>>)
                A == tail.ids
                b == Len(tail.inner)
                g == groups[i]
            IN  /\ Take(chunks.inner, Len(upto.inner)) = upto.inner
                /\ i = 1 => chunks.firsts = upto.ids
                /\ (i > 1 /\ groups[i - 1].kind = "Simple") =>
                       get(chunks.inner, Len(upto.inner)).childs = upto.ids
                /\ g.kind = "Simple" =>
                       /\ upto.inner = Append(tail.inner, Chunk(g.tokens, A))
                       /\ upto.ids = <<b>>
                /\ g.kind = "Repetition" =>
                       LET n == ChunkCount(g.content)
                           one == create_chunks(tail.inner, g.content, A)
                           hasSep == g.separator # <<>>
                           X == IF hasSep THEN <<b + n>> ELSE one.ids
                           base == IF hasSep
                                   THEN Append(one.inner, Chunk(g.separator, one.ids))
                                   ELSE one.inner
                           two == create_chunks(base, g.content, X)
                       IN  /\ upto.ids = (A \o one.ids) \o two.ids
                           /\ upto.inner = two.inner
                           /\ Len(one.inner) = b + n
                           /\ Len(two.inner) = Len(base) + n
                           /\ hasSep => get(chunks.inner, b + n)
                                            = Chunk(g.separator, one.ids)
                           /\ \A id \in Range(one.ids) :
                                  id \in Range(A) \/ id \in b..(b + n - 1)
                           /\ \A id \in Range(two.ids) :
                                  id \in Range(X)
                                      \/ id \in Len(base)..(Len(base) + n - 1)

\* a Simple group followed by a Repetition group with a separator and a
\* nested repetition, itself followed by more of the template
C14_Witness ==
    /\ pc = "done"
    /\ Len(groups) >= 3
    /\ groups[1].kind = "Simple"
    /\ groups[2].kind = "Repetition"
    /\ groups[2].separator # <<>>
    /\ HasSimple(groups[2].content)
    /\ \E k \in 1..Len(groups[2].content) : groups[2].content[k].kind = "Repetition"
    /\ Len(get(chunks.inner, Len(chunks.inner) - 1).childs) >= 3

(***************************************************************************)
(* The tree builder and the group collapser keep the input.                *)
(***************************************************************************)
\* every Repetition of a tree sequence, at any depth, has a body that written
\* out is depth-matched: read from depth 1, the depth never drops below 1 and
\* ends at 1, so the ) written after it is the one that closes its $(
RECURSIVE BodiesMatched(_)
BodiesMatched(stream) ==
    \A i \in 1..Len(stream) :
        stream[i].kind = "Repetition" =>
            LET b == write_trees(stream[i].repeated)
            IN  /\ \A j \in 1..Len(b) : DepthAt(b, 1, j) >= 1
                /\ DepthAt(b, 1, Len(b)) = 1
                /\ Len(stream[i].separator) <= 1
                /\ BodiesMatched(stream[i].repeated)

\* The token trees of test_parse_tokenstream.
TreeSnapshot ==
    << TokenTreeToken("["),
       TokenTreeRepetition(<< TokenTreeToken("1"), TokenTreeToken(","),
                              TokenTreeToken("2") >>, <<",">>),
       TokenTreeToken("]") >>

\* C15: at every point of a parse that has not failed, the trees built so far
\* written back out, followed by the tokens not yet consumed, are the input;
\* so when parse_tokenstream succeeds nothing is left over and the trees
\* written out are the input exactly. Every Repetition built has a
\* depth-matched body and at most one separator token. The test input gives
\* the trees of the test.
C15_RoundTrip ==
    /\ pc = "parse" => write_trees(trees) \o tokens = input
    /\ Accepted =>
           /\ tokens = <<>>
           /\ write_trees(trees) = input
           /\ BodiesMatched(trees)
           /\ input = TestTree => trees = TreeSnapshot

\* an accepted template with a repetition nested in a repetition, separators
\* present, around plain tokens
C15_Witness ==
    /\ pc = "groups"
    /\ Len(trees) >= 3
    /\ \E i \in 1..Len(trees) :
           /\ trees[i].kind = "Repetition"
           /\ trees[i].separator # <<>>
           /\ \E k \in 1..Len(trees[i].repeated) :
                  /\ trees[i].repeated[k].kind = "Repetition"
                  /\ trees[i].repeated[k].separator # <<>>

\* groups back to token trees: a Simple group is its tokens, a Repetition
\* group a Repetition tree of its content with its separator
RECURSIVE Ungroup(_)
Ungroup(grps) ==
    IF grps = <<>> THEN <<>>
    ELSE LET g == Head(grps)
             first == IF g.kind = "Simple"
                      THEN [k \in 1..Len(g.tokens) |-> TokenTreeToken(g.tokens[k])]
                      ELSE <<TokenTreeRepetition(Ungroup(g.content), g.separator)>>
         IN  first \o Ungroup(Tail(grps))

\* The groups of test_create_groups.
GroupsSnapshot ==
    << GroupSimple(<<"[">>),
       GroupRepetition(<< GroupSimple(<<"1", ",">>),
                          GroupRepetition(<<GroupSimple(<<"3", ",">>)>>, <<>>),
                          GroupSimple(<<",">>) >>, <<",">>),
       GroupSimple(<<"]">>) >>

\* C17: the groups returned by create_groups, flattened back (a Simple group
\* as its tokens, a Repetition group as a Repetition of its flattened content
\* with its separator), are the token trees it was given: same tokens in the
\* same order, one Repetition group per Repetition tree at the same depth
\* with the same separator; a result exists for every tree sequence; the
\* test input gives the groups of the test.
C17_StructurePreserved ==
    pc \in {"groups", "done"} =>
        /\ Ungroup(groups) = trees
        /\ input = TestGroups => groups = GroupsSnapshot

C17_Witness ==
    /\ pc = "groups"
    /\ Len(groups) >= 3
    /\ \E i \in 1..Len(groups) :
           /\ groups[i].kind = "Repetition"
           /\ groups[i].separator # <<>>
           /\ Len(groups[i].content) >= 3
           /\ \E k \in 1..Len(groups[i].content) :
                  /\ groups[i].content[k].kind = "Simple"
                  /\ Len(groups[i].content[k].tokens) >= 2

(***************************************************************************)
(* At most two occurrences of a body on a path.                            *)
(***************************************************************************)
\* the token sequences spelled by the paths from a first entry to a chunk
\* with no children
SpelledByPaths == UNION {Spelled(id) : id \in Range(chunks.firsts)}

\* the Repetition instances that have chunks: a group position together with
\* the builds of the enclosing groups it was built in
RepInstances ==
    UNION {{[path |-> Take(Origins[n].path, m), occ |-> Take(Origins[n].occ, m - 1)] :
                m \in 1..(Len(Origins[n].path) - 1)} : n \in 1..Len(Origins)}

\* the chunks of build k of the body of the instance rep
BuildIds(rep, k) == {id \in Ids : InBody(id, rep, k)}

\* the chunks of set S occupy consecutive ids
Consecutive(S) == \A a, b \in S : \A x \in Ids : (a <= x /\ x <= b) => x \in S

\* C16: every path from a first entry to a chunk with no children spells the
\* template with every repetition group expanded 0, 1 or 2 times, the
\* separator between the two occurrences. And no path passes three times or
\* more through the body of a group: ids strictly decrease along every path,
\* the chunks of each of the two builds of a body occupy consecutive ids, the
\* second build above the first, so a path crosses the second build at most
\* once and then the first build at most once, and there is no third build.
C16_AtMostTwoOccurrences ==
    pc = "done" =>
        /\ SpelledByPaths \subseteq Expand(groups)
        /\ Len(Origins) = Len(chunks.inner)
        /\ \A p \in Ids : \A c \in Childs(p) : c < p
        /\ \A n \in 1..Len(Origins) : \A k \in 1..Len(Origins[n].occ) :
               Origins[n].occ[k] \in {1, 2}
        /\ \A rep \in RepInstances :
               /\ Consecutive(BuildIds(rep, 1))
               /\ Consecutive(BuildIds(rep, 2))
               /\ \A a \in BuildIds(rep, 1) : \A b \in BuildIds(rep, 2) : a < b
               /\ \A p \in BuildIds(rep, 1) : Childs(p) \cap BuildIds(rep, 2) = {}

\* a path through two occurrences of a body that itself holds a repetition
\* taken twice
C16_Witness ==
    /\ pc = "done"
    /\ \E rep \in RepInstances :
           /\ Len(rep.path) = 2
           /\ rep.occ = <<2>>
           /\ \E p \in BuildIds(rep, 2) : \E c \in Childs(p) :
                  /\ c \in BuildIds(rep, 1)
                  /\ \E q \in BuildIds([path |-> Take(rep.path, 1), occ |-> <<>>], 1) :
                         \E r \in Childs(q) : r \notin BuildIds([path |-> Take(rep.path, 1), occ |-> <<>>], 1)
                                                  /\ r \notin BuildIds([path |-> Take(rep.path, 1), occ |-> <<>>], 2)
    /\ Cardinality(SpelledByPaths) >= 4

(***************************************************************************)
(* No orphan chunk, no dangling identifier.                                *)
(***************************************************************************)
\* the ids reached from the ids of S by following childs
RECURSIVE ReachableFrom(_)
ReachableFrom(S) ==
    LET more == S \cup UNION {Range(get(chunks.inner, id).childs) : id \in S}
    IN  IF more = S THEN S ELSE ReachableFrom(more)

\* C19: in every arena returned by of, every id of firsts and of every child
\* list is an index of the arena, every chunk is reached from some first by
\* following childs, and every chunk holds at least one token.
C19_ReachableAndValid ==
    pc = "done" =>
        /\ Range(chunks.firsts) \subseteq Ids
        /\ \A id \in Ids : Childs(id) \subseteq Ids
        /\ ReachableFrom(Range(chunks.firsts)) = Ids
        /\ \A id \in Ids : get(chunks.inner, id).tokens # <<>>

\* an arena with a separator chunk and chunks two or more steps away from
\* every first
C19_Witness ==
    /\ pc = "done"
    /\ Len(chunks.inner) >= 6
    /\ SeparatorIds # {}
    /\ \E id \in Ids :
           /\ id \notin Range(chunks.firsts)
           /\ \A p \in Parents(id) : p \notin Range(chunks.firsts)

(***************************************************************************)
(* streams.rs: Stream, PauseId; state.rs: the State helpers on pauses.     *)
(***************************************************************************)
\* the Stream pushed by Streams::add: a lexer over the program, no pause
StreamNew(program) == [lexer |-> program, pause |-> {}]

\* Stream::pause
pause(stream, id) == [stream EXCEPT !.pause = @ \cup {id}]

\* Variant of maybe_unpause that clears the whole pause set.
maybe_unpause_all(stream, id) == [stream EXCEPT !.pause = {}]

\* Stream::maybe_unpause
maybe_unpause(stream, id) == [stream EXCEPT !.pause = @ \ {id}]

\* Stream::is_paused
is_paused(stream) == stream.pause # {}

\* Variant of is_any_unpaused that looks at the first stream only.
is_first_unpaused(strs) == strs # <<>> /\ ~is_paused(strs[1])

\* State::is_any_unpaused
is_any_unpaused(strs) == \E i \in 1..Len(strs) : ~is_paused(strs[i])

\* State::unpause
unpause(strs, id) == [i \in 1..Len(strs) |-> maybe_unpause(strs[i], id)]

\* the expansion pipeline is not run
ExpansionIdle ==
    /\ pc = "idle"
    /\ input = <<>>
    /\ tokens = <<>>
    /\ trees = <<>>
    /\ groups = <<>>
    /\ chunks = ChunksNew
    /\ err = ""

(***************************************************************************)
(* SpecPause: two streams and any sequence of calls of Stream::pause,      *)
(* Stream::maybe_unpause and State::unpause with PauseIds obtained from    *)
(* PauseId::new. calls is the history of the calls made on each stream     *)
(* (State::unpause is one maybe_unpause per stream).                       *)
(***************************************************************************)
\* how many PauseIds are drawn from the counter
MaxPauseIds == 2
\* how many calls are made
MaxCalls == 4

InitPause ==
    /\ ExpansionIdle
    /\ programs = << <<>>, <<>> >>
    /\ streams = [i \in 1..Len(programs) |-> StreamNew(programs[i])]
    /\ counter = 0
    /\ stack = <<>>
    /\ outcome = ""
    /\ entry = ""
    /\ calls = <<>>

\* PauseId::new
NewPauseId ==
    /\ counter < MaxPauseIds
    /\ counter' = counter + 1
    /\ UNCHANGED <<streams, stack, outcome, programs, entry, calls>>
    /\ UNCHANGED evars

CallPause ==
    /\ Len(calls) < MaxCalls
    /\ \E s \in 1..Len(streams) : \E id \in 0..(counter - 1) :
           /\ streams' = [streams EXCEPT ![s] = pause(@, id)]
           /\ calls' = Append(calls, [op |-> "pause", stream |-> s - 1, id |-> id])
    /\ UNCHANGED <<counter, stack, outcome, programs, entry>>
    /\ UNCHANGED evars

CallMaybeUnpause ==
    /\ Len(calls) < MaxCalls
    /\ \E s \in 1..Len(streams) : \E id \in 0..(counter - 1) :
           /\ streams' = [streams EXCEPT ![s] = maybe_unpause(@, id)]
           /\ calls' = Append(calls, [op |-> "maybe_unpause", stream |-> s - 1,
                                      id |-> id])
    /\ UNCHANGED <<counter, stack, outcome, programs, entry>>
    /\ UNCHANGED evars

CallUnpause ==
    /\ Len(calls) + Len(streams) <= MaxCalls
    /\ \E id \in 0..(counter - 1) :
           /\ streams' = unpause(streams, id)
           /\ calls' = calls \o [i \in 1..Len(streams) |->
                                    [op |-> "maybe_unpause", stream |-> i - 1,
                                     id |-> id]]
    /\ UNCHANGED <<counter, stack, outcome, programs, entry>>
    /\ UNCHANGED evars

NextPause == NewPauseId \/ CallPause \/ CallMaybeUnpause \/ CallUnpause

SpecPause == InitPause /\ [][NextPause]_vars

\* the PauseIds applied to stream s with pause and not since removed with
\* maybe_unpause, read off the history of calls
Applied(s) ==
    {id \in 0..(counter - 1) :
         \E n \in 1..Len(calls) :
             /\ calls[n] = [op |-> "pause", stream |-> s, id |-> id]
             /\ \A m \in (n + 1)..Len(calls) :
                    calls[m] # [op |-> "maybe_unpause", stream |-> s, id |-> id]}

\* C11: after any sequence of pause and maybe_unpause calls, is_paused of a
\* stream is true exactly when some PauseId was applied to it with pause and
\* not removed since with maybe_unpause (the stream's pause set holds exactly
\* those ids): a stream paused under several ids stays paused until all are
\* removed, and a maybe_unpause of an id it is not paused by changes nothing.
C11_PauseState ==
    \A s \in 1..Len(streams) :
        /\ is_paused(streams[s]) <=> Applied(s - 1) # {}
        /\ streams[s].pause = Applied(s - 1)

\* a stream paused under two ids of which one was removed, and a
\* maybe_unpause of an id the other stream was never paused by
C11_Witness ==
    /\ Len(calls) = 4
    /\ calls[1] = [op |-> "pause", stream |-> 0, id |-> 0]
    /\ calls[2] = [op |-> "pause", stream |-> 0, id |-> 1]
    /\ calls[3].op = "maybe_unpause" /\ calls[3].id = 0
    /\ calls[4].op = "maybe_unpause" /\ calls[4].id = 0
    /\ is_paused(streams[1])
    /\ ~is_paused(streams[2])

(***************************************************************************)
(* state.rs: the token helpers of State. They visit the streams in order,  *)
(* skip the paused ones and stop at the first stream whose token getter or *)
(* action reports an error; the result holds the streams afterwards and    *)
(* whether Ok was returned.                                                *)
(***************************************************************************)
Numbers == {"1", "2", "3", "4", "42", "69", "101"}
Strings == {"hello", "world"}

\* enum Token
Tokens ==
    {"(", ")", "[", "]", ",", "+", "-", ";", "$", "*", "/"} \cup Numbers \cup Strings

\* the values of Option<Token>
Peeks == {<<>>} \cup {<<t>> : t \in Tokens}

\* stream.lexer.peek().cloned(): None at the end of the input
peek(stream) == IF stream.lexer = <<>> THEN <<>> ELSE <<Head(stream.lexer)>>

\* stream.lexer.next(): at the end of the input nothing is consumed
consume(stream) ==
    IF stream.lexer = <<>> THEN stream ELSE [stream EXCEPT !.lexer = Tail(@)]

\* State::next_token with an action that reports a mismatch unless the token
\* is in accepted and pauses the stream with id when it is in pausing; the
\* getter fails with "end of input" on an exhausted unpaused stream.
next_token(strs, accepted, pausing, id) ==
    LET fails(i) == /\ ~is_paused(strs[i])
                    /\ \/ strs[i].lexer = <<>>
                       \/ Head(strs[i].lexer) \notin accepted
        bad == {i \in 1..Len(strs) : fails(i)}
        first == IF bad = {} THEN Len(strs) + 1
                 ELSE CHOOSE i \in bad : \A j \in bad : i <= j
        after(i) ==
            IF is_paused(strs[i]) \/ i > first \/ strs[i].lexer = <<>> THEN strs[i]
            ELSE IF i < first /\ Head(strs[i].lexer) \in pausing
                 THEN pause(consume(strs[i]), id)
                 ELSE consume(strs[i])
    IN  [streams |-> [i \in 1..Len(strs) |-> after(i)], ok |-> bad = {}]

\* State::expect
expect(strs, expected) == next_token(strs, {expected}, {}, 0)

\* State::peek_token with an action that consumes the peeked token when the
\* peek is in consumed and pauses the stream with id when it is in pausing;
\* peeking never fails and the actions used never report a mismatch.
peek_token(strs, consumed, pausing, id) ==
    LET after(i) ==
            LET pk == peek(strs[i])
                eaten == IF pk \in consumed THEN consume(strs[i]) ELSE strs[i]
            IN  IF is_paused(strs[i]) THEN strs[i]
                ELSE IF pk \in pausing THEN pause(eaten, id)
                ELSE eaten
    IN  [i \in 1..Len(strs) |-> after(i)]

(***************************************************************************)
(* helpers.rs: Diverge. groups maps every key to the ids of its streams,   *)
(* in stream order; a key that is not in the BTreeMap maps to <<>>.        *)
(***************************************************************************)
\* the keys of parse_expression (ExprState) and of parse_array (0, 1, 2)
GroupKeys == {"Fallback", "Nested", "Array", "0", "1", "2"}

NoGroups == [k \in GroupKeys |-> <<>>]

\* Diverge::new: the unpaused streams with a next token, grouped by it
DivergeNew(strs, grouper) ==
    [k \in GroupKeys |->
        LET member(i) == /\ ~is_paused(strs[i + 1])
                         /\ peek(strs[i + 1]) # <<>>
                         /\ grouper[Head(strs[i + 1].lexer)] = k
        IN  SelectSeq([i \in 1..Len(strs) |-> i - 1], member)]

\* Variant of pause_others that leaves the streams after the group's last
\* member unpaused.
pause_others_before(strs, group, id) ==
    [i \in 1..Len(strs) |->
        IF (i - 1) \in Range(group) \/ \A g \in Range(group) : g < i - 1
        THEN strs[i] ELSE pause(strs[i], id)]

\* the first loop of Diverge::handle: pause every stream not in group
pause_others(strs, group, id) ==
    [i \in 1..Len(strs) |->
        IF (i - 1) \in Range(group) THEN strs[i] ELSE pause(strs[i], id)]

(***************************************************************************)
(* The call stack. A frame is one call of a function of parser/mod.rs or   *)
(* parser/helpers.rs: fn names the function (a closure is named after what *)
(* it handles), pc the statement it is at (for a frame below the top: the  *)
(* statement it resumes at), pause_id its PauseId (-1: none), groups the   *)
(* groups of its Diverge, group the group handed to handle, arg the        *)
(* closure or handler it was given. The top of the stack is the last frame.*)
(***************************************************************************)
Frame(fn, at, id, arg) ==
    [fn |-> fn, pc |-> at, pause_id |-> id, groups |-> NoGroups,
     group |-> <<>>, arg |-> arg]

\* a call of while_any_unpaused with closure f
WhileFrame(f) == Frame("while_any_unpaused", "new", -1, f)

\* a call of Diverge::handle for the streams of group with the given handler
HandleFrame(group, handler) ==
    [Frame("handle", "start", -1, handler) EXCEPT !.group = group]

Top == stack[Len(stack)]

At(fn, at) == stack # <<>> /\ Top.fn = fn /\ Top.pc = at

\* go on to statement at of the running function
Goto(at) ==
    /\ stack' = [stack EXCEPT ![Len(stack)].pc = at]
    /\ UNCHANGED outcome

\* call a function; the caller resumes at statement at
Call(at, frame) ==
    /\ stack' = Append([stack EXCEPT ![Len(stack)].pc = at], frame)
    /\ UNCHANGED outcome

\* return Ok(()) to the caller
Return ==
    /\ stack' = Take(stack, Len(stack) - 1)
    /\ outcome' = IF Len(stack) = 1 THEN "Ok" ELSE outcome

\* return Err: every caller passes it on with ?
Fail ==
    /\ stack' = <<>>
    /\ outcome' = "Err"

\* r? : the streams are as the helper left them; go on only if it was Ok
Try(r, Then) ==
    /\ streams' = r.streams
    /\ IF r.ok THEN Then ELSE Fail

Fixed ==
    /\ UNCHANGED <<programs, entry, calls>>
    /\ UNCHANGED evars

(***************************************************************************)
(* helpers.rs: while_any_unpaused.                                         *)
(***************************************************************************)
\* let pause = PauseId::new();
WhileNew ==
    /\ At("while_any_unpaused", "new")
    /\ stack' = [stack EXCEPT ![Len(stack)] =
                     [@ EXCEPT !.pc = "loop", !.pause_id = counter]]
    /\ counter' = counter + 1
    /\ UNCHANGED <<streams, outcome>>
    /\ Fixed

\* while state.is_any_unpaused() { f(state, pause)?; }
WhileInvoke ==
    /\ At("while_any_unpaused", "loop")
    /\ is_any_unpaused(streams)
    /\ Call("loop", Frame(Top.arg, "start", Top.pause_id, ""))
    /\ UNCHANGED <<streams, counter>>
    /\ Fixed

\* state.unpause(pause); Ok(())
WhileReturn ==
    /\ At("while_any_unpaused", "loop")
    /\ ~is_any_unpaused(streams)
    /\ streams' = unpause(streams, Top.pause_id)
    /\ Return
    /\ UNCHANGED counter
    /\ Fixed

(***************************************************************************)
(* helpers.rs: Diverge::handle.                                            *)
(***************************************************************************)
\* let Some(group) = self.groups.remove(&case) else { return Ok(self) };
HandleSkip ==
    /\ At("handle", "start")
    /\ Top.group = <<>>
    /\ Return
    /\ UNCHANGED <<streams, counter>>
    /\ Fixed

\* the group exists: a new PauseId pauses every other stream, then handler
HandleEnter ==
    /\ At("handle", "start")
    /\ Top.group # <<>>
    /\ streams' = pause_others(streams, Top.group, counter)
    /\ counter' = counter + 1
    /\ stack' = Append([stack EXCEPT ![Len(stack)] =
                            [@ EXCEPT !.pc = "exit", !.pause_id = counter]],
                       Frame(Top.arg, "start", -1, ""))
    /\ UNCHANGED outcome
    /\ Fixed

\* the handler returned Ok: maybe_unpause(pause) on every stream; Ok(self)
HandleExit ==
    /\ At("handle", "exit")
    /\ streams' = unpause(streams, Top.pause_id)
    /\ Return
    /\ UNCHANGED counter
    /\ Fixed

(***************************************************************************)
(* parser/mod.rs: parse_expression. Its body is one call of                *)
(* while_any_unpaused, so a call of parse_expression is the frame          *)
(* WhileFrame("expression"); the frame "expression" is one run of the      *)
(* closure.                                                                *)
(***************************************************************************)
ParseExpressionFrame == WhileFrame("expression")

\* the grouper of parse_expression
ExprState ==
    [t \in Tokens |->
        IF t = "[" THEN "Array" ELSE IF t = "(" THEN "Nested" ELSE "Fallback"]

\* the handler given to handle for each key
Handler(case) ==
    CASE case = "Fallback" -> "fallback_handler"
      [] case = "Nested" -> "nested_handler"
      [] case = "Array" -> "parse_array"
      [] case = "0" -> "repeat_handler"
      [] case = "1" -> "close_handler"
      [] case = "2" -> "items_handler"

\* the statement after the handle call for a key
AfterHandle(case) ==
    CASE case = "Fallback" -> "Nested"
      [] case = "Nested" -> "Array"
      [] case = "Array" -> "operator"
      [] case = "0" -> "1"
      [] case = "1" -> "2"
      [] case = "2" -> "unpause"

\* .handle(case, handler): the Diverge gives up the group of the key
CallHandle(case) ==
    /\ stack' = Append([stack EXCEPT ![Len(stack)] =
                            [@ EXCEPT !.pc = AfterHandle(case),
                                      !.groups = [@ EXCEPT ![case] = <<>>]]],
                       HandleFrame(Top.groups[case], Handler(case)))
    /\ UNCHANGED <<streams, counter, outcome>>

\* Diverge::new(state, |peek| match peek { ... })
ExpressionDiverge ==
    /\ At("expression", "start")
    /\ stack' = [stack EXCEPT ![Len(stack)] =
                     [@ EXCEPT !.pc = "Fallback",
                               !.groups = DivergeNew(streams, ExprState)]]
    /\ UNCHANGED <<streams, counter, outcome>>
    /\ Fixed

\* .handle(Fallback, ..)? .handle(Nested, ..)? .handle(Array, parse_array)?
ExpressionHandle ==
    /\ \E case \in {"Fallback", "Nested", "Array"} :
           /\ At("expression", case)
           /\ CallHandle(case)
    /\ Fixed

\* the peeks Some(Token::Dash) and Some(Token::Plus)
OperatorPeeks == {<<"-">>, <<"+">>}

\* state.peek_token(..): consume a binary operator, else pause(pause)
ExpressionOperator ==
    /\ At("expression", "operator")
    /\ streams' = peek_token(streams, OperatorPeeks, Peeks \ OperatorPeeks,
                            Top.pause_id)
    /\ Return
    /\ UNCHANGED counter
    /\ Fixed

\* Token::Number(_) and Token::String(_)
ValueTokens == Numbers \cup Strings

\* the Fallback handler: next_token, a Number or a String or a mismatch
FallbackHandler ==
    /\ At("fallback_handler", "start")
    /\ Try(next_token(streams, ValueTokens, {}, 0), Return)
    /\ UNCHANGED counter
    /\ Fixed

\* the Nested handler: expect ( ; parse_expression ; expect )
NestedOpen ==
    /\ At("nested_handler", "start")
    /\ Try(expect(streams, "("), Goto("expression"))
    /\ UNCHANGED counter
    /\ Fixed

NestedExpression ==
    /\ At("nested_handler", "expression")
    /\ Call("close", ParseExpressionFrame)
    /\ UNCHANGED <<streams, counter>>
    /\ Fixed

NestedClose ==
    /\ At("nested_handler", "close")
    /\ Try(expect(streams, ")"), Return)
    /\ UNCHANGED counter
    /\ Fixed

(***************************************************************************)
(* parser/mod.rs: parse_array.                                             *)
(***************************************************************************)
\* the grouper of parse_array
ArrayCase ==
    [t \in Tokens |-> IF t = ";" THEN "0" ELSE IF t = "]" THEN "1" ELSE "2"]

\* the peek Some(Token::CloseSquare)
CloseSquarePeek == {<<"]">>}

\* let pause = PauseId::new();
ArrayNew ==
    /\ At("parse_array", "start")
    /\ stack' = [stack EXCEPT ![Len(stack)] =
                     [@ EXCEPT !.pc = "open", !.pause_id = counter]]
    /\ counter' = counter + 1
    /\ UNCHANGED <<streams, outcome>>
    /\ Fixed

\* state.expect(Token::OpenSquare)?;
ArrayOpen ==
    /\ At("parse_array", "open")
    /\ Try(expect(streams, "["), Goto("empty"))
    /\ UNCHANGED counter
    /\ Fixed

\* the empty array: consume ] and pause the stream
ArrayEmpty ==
    /\ At("parse_array", "empty")
    /\ streams' = peek_token(streams, CloseSquarePeek, CloseSquarePeek, Top.pause_id)
    /\ Goto("first")
    /\ UNCHANGED counter
    /\ Fixed

\* parse_expression(state)?;
ArrayFirst ==
    /\ At("parse_array", "first")
    /\ Call("diverge", ParseExpressionFrame)
    /\ UNCHANGED <<streams, counter>>
    /\ Fixed

\* Diverge::new(state, |peek| match peek { ; => 0, ] => 1, _ => 2 })
ArrayDiverge ==
    /\ At("parse_array", "diverge")
    /\ stack' = [stack EXCEPT ![Len(stack)] =
                     [@ EXCEPT !.pc = "0",
                               !.groups = DivergeNew(streams, ArrayCase)]]
    /\ UNCHANGED <<streams, counter, outcome>>
    /\ Fixed

\* .handle(0, ..)? .handle(1, ..)? .handle(2, ..)?
ArrayHandle ==
    /\ \E case \in {"0", "1", "2"} :
           /\ At("parse_array", case)
           /\ CallHandle(case)
    /\ Fixed

\* state.unpause(pause); Ok(())
ArrayUnpause ==
    /\ At("parse_array", "unpause")
    /\ streams' = unpause(streams, Top.pause_id)
    /\ Return
    /\ UNCHANGED counter
    /\ Fixed

\* handler 0: expect ; ; parse_expression ; expect ]
RepeatSemicolon ==
    /\ At("repeat_handler", "start")
    /\ Try(expect(streams, ";"), Goto("expression"))
    /\ UNCHANGED counter
    /\ Fixed

RepeatExpression ==
    /\ At("repeat_handler", "expression")
    /\ Call("close", ParseExpressionFrame)
    /\ UNCHANGED <<streams, counter>>
    /\ Fixed

RepeatClose ==
    /\ At("repeat_handler", "close")
    /\ Try(expect(streams, "]"), Return)
    /\ UNCHANGED counter
    /\ Fixed

\* handler 1: expect ]
CloseHandler ==
    /\ At("close_handler", "start")
    /\ Try(expect(streams, "]"), Return)
    /\ UNCHANGED counter
    /\ Fixed

\* handler 2: expect , ; while_any_unpaused over the items
ItemsComma ==
    /\ At("items_handler", "start")
    /\ Try(expect(streams, ","), Goto("items"))
    /\ UNCHANGED counter
    /\ Fixed

ItemsLoop ==
    /\ At("items_handler", "items")
    /\ Call("end", WhileFrame("items"))
    /\ UNCHANGED <<streams, counter>>
    /\ Fixed

ItemsEnd ==
    /\ At("items_handler", "end")
    /\ Return
    /\ UNCHANGED <<streams, counter>>
    /\ Fixed

\* the closure over the items: the closing ] of a trailing comma
ItemPeek ==
    /\ At("items", "start")
    /\ streams' = peek_token(streams, CloseSquarePeek, CloseSquarePeek, Top.pause_id)
    /\ Goto("expression")
    /\ UNCHANGED counter
    /\ Fixed

ItemExpression ==
    /\ At("items", "expression")
    /\ Call("next", ParseExpressionFrame)
    /\ UNCHANGED <<streams, counter>>
    /\ Fixed

\* the tokens that end an item: ] and ,
ItemEnds == {"]", ","}

\* next_token: ] pauses the stream, a comma goes on, anything else a mismatch
ItemNext ==
    /\ At("items", "next")
    /\ Try(next_token(streams, ItemEnds, {"]"}, Top.pause_id), Return)
    /\ UNCHANGED counter
    /\ Fixed

(***************************************************************************)
(* SpecParser: parse_expression or parse_array called on a State over the  *)
(* streams of some programs, as the tests of parser/mod.rs do. A program   *)
(* is the token sequence its lexer yields.                                 *)
(***************************************************************************)
\* longest program of a state with one stream, over SingleTokens
MaxProgramLen == 4
\* longest program of a state with two streams, over PairTokens
MaxPairLen == 2

SingleTokens == {"1", "+", "(", ")", "[", "]", ","}
PairTokens == {"1", "+", "(", ")"}

\* the programs of test_parse_expression
TestExpressionPrograms ==
    << <<"1">>,
       <<"hello">>,
       <<"1", "+", "2", "+", "[", "3", "]", "+", "4", "-", "world">>,
       <<"1", "+", "(", "3", "-", "2", ")">> >>

\* the programs of test_parse_array
TestArrayPrograms ==
    << <<"[", "]">>,
       <<"[", "1", "]">>,
       <<"[", "1", "+", "2", ",", "hello", "]">>,
       <<"[", "1", ",", "]">>,
       <<"[", "[", "[", "[", "[", "[", "1", "]", "]", "]", "]", "]", "]">>,
       <<"[", "[", "42", ";", "101", "]", ";", "69", "]">> >>

TestPrograms == Range(TestExpressionPrograms) \cup Range(TestArrayPrograms)

ParserInputs ==
    {<<p>> : p \in SeqsUpTo(SingleTokens, MaxProgramLen)}
        \cup {<<p, q>> : p, q \in SeqsUpTo(PairTokens, MaxPairLen)}
        \cup {<<p, q>> : p, q \in TestPrograms}
        \cup {TestExpressionPrograms, TestArrayPrograms}

InitParser ==
    /\ ExpansionIdle
    /\ programs \in ParserInputs
    /\ entry \in {"parse_expression", "parse_array"}
    /\ streams = [i \in 1..Len(programs) |-> StreamNew(programs[i])]
    /\ counter = 0
    /\ stack = << IF entry = "parse_expression" THEN ParseExpressionFrame
                  ELSE Frame("parse_array", "start", -1, "") >>
    /\ outcome = ""
    /\ calls = <<>>

NextParser ==
    \/ WhileNew \/ WhileInvoke \/ WhileReturn
    \/ HandleSkip \/ HandleEnter \/ HandleExit
    \/ ExpressionDiverge \/ ExpressionHandle \/ ExpressionOperator
    \/ FallbackHandler
    \/ NestedOpen \/ NestedExpression \/ NestedClose
    \/ ArrayNew \/ ArrayOpen \/ ArrayEmpty \/ ArrayFirst \/ ArrayDiverge
    \/ ArrayHandle \/ ArrayUnpause
    \/ RepeatSemicolon \/ RepeatExpression \/ RepeatClose
    \/ CloseHandler
    \/ ItemsComma \/ ItemsLoop \/ ItemsEnd
    \/ ItemPeek \/ ItemExpression \/ ItemNext

SpecParser == InitParser /\ [][NextParser]_vars

\* the tests of parser/mod.rs: both calls return Ok
TestsPass ==
    /\ (programs = TestExpressionPrograms /\ entry = "parse_expression")
           => outcome # "Err"
    /\ (programs = TestArrayPrograms /\ entry = "parse_array") => outcome # "Err"

(***************************************************************************)
(* Properties of the parser helpers.                                       *)
(***************************************************************************)
StreamIds == 1..Len(streams)

AllPaused == \A s \in StreamIds : streams[s].pause # {}

\* this step calls a closure of while_any_unpaused
ClosureInvoked ==
    /\ Len(stack') = Len(stack) + 1
    /\ stack'[Len(stack')].fn \in {"expression", "items"}

\* C12, one step: a closure is invoked only by a while_any_unpaused that
\* sees some stream unpaused, with the PauseId of that call, and the call
\* itself touches no stream; as long as some stream is unpaused the loop
\* invokes the closure again; it returns only when every stream is paused,
\* and returning removes its PauseId from every stream and nothing else (a
\* stream paused by another PauseId stays paused); while a call of
\* while_any_unpaused is running, no PauseId older than its own is removed
\* from any stream.
C12_Step ==
    /\ ClosureInvoked =>
           /\ ~AllPaused
           /\ At("while_any_unpaused", "loop")
           /\ stack'[Len(stack')].pause_id = Top.pause_id
           /\ streams' = streams
    /\ (At("while_any_unpaused", "loop") /\ ~AllPaused) => ClosureInvoked
    /\ (At("while_any_unpaused", "loop") /\ AllPaused) =>
           /\ stack' = Take(stack, Len(stack) - 1)
           /\ outcome' # "Err"
           /\ \A s \in StreamIds :
                  /\ streams'[s].pause = streams[s].pause \ {Top.pause_id}
                  /\ streams'[s].lexer = streams[s].lexer
                  /\ streams[s].pause # {Top.pause_id} => streams'[s].pause # {}
    /\ \A k \in 1..Len(stack) :
           (stack[k].fn = "while_any_unpaused" /\ stack[k].pc = "loop") =>
               \A s \in StreamIds :
                   {i \in streams[s].pause : i < stack[k].pause_id}
                       \subseteq streams'[s].pause

\* C12: every step of every run of the parser satisfies C12_Step.
C12_WhileAnyUnpaused == [][C12_Step]_vars

\* an inner while_any_unpaused about to return: all streams are paused, one
\* by the PauseId of this call (its closure has run), another only by other
\* PauseIds
C12_Witness ==
    /\ Len(stack) >= 3
    /\ At("while_any_unpaused", "loop")
    /\ AllPaused
    /\ \E s \in StreamIds : Top.pause_id \in streams[s].pause
    /\ \E s \in StreamIds : Top.pause_id \notin streams[s].pause

\* frame k is a handle call whose handler is running
HandlerRunning(k) ==
    /\ k < Len(stack)
    /\ stack[k].fn = "handle"
    /\ stack[k].pc = "exit"

\* C13, one step: while a handle call runs its handler, every stream that is
\* not a member of its group is paused by the PauseId of that call and no
\* token of it is consumed; when handle returns Ok its PauseId is on no
\* stream any more and nothing else changed; a handle call for a key with
\* no streams returns at once: no handler frame, no new PauseId, no stream
\* changed.
C13_Step ==
    /\ \A k \in 1..Len(stack) :
           HandlerRunning(k) =>
               \A s \in StreamIds :
                   (s - 1) \notin Range(stack[k].group) =>
                       /\ stack[k].pause_id \in streams[s].pause
                       /\ stack[k].pause_id \in streams'[s].pause
                       /\ streams'[s].lexer = streams[s].lexer
    /\ At("handle", "exit") =>
           /\ stack' = Take(stack, Len(stack) - 1)
           /\ \A s \in StreamIds :
                  /\ Top.pause_id \notin streams'[s].pause
                  /\ streams'[s].pause = streams[s].pause \ {Top.pause_id}
                  /\ streams'[s].lexer = streams[s].lexer
    /\ (At("handle", "start") /\ Top.group = <<>>) =>
           /\ stack' = Take(stack, Len(stack) - 1)
           /\ streams' = streams
           /\ counter' = counter
    /\ (At("handle", "start") /\ Top.group # <<>>) =>
           /\ Len(stack') = Len(stack) + 1
           /\ stack'[Len(stack')].fn = Top.arg
           /\ \A s \in StreamIds :
                  /\ (s - 1) \in Range(Top.group) => streams'[s] = streams[s]
                  /\ (s - 1) \notin Range(Top.group) => streams'[s].pause # {}

\* C13: every step of every run of the parser satisfies C13_Step.
C13_HandlePausesOthers == [][C13_Step]_vars

\* a handler is running for a group that leaves out a stream which only the
\* PauseId of this handle call pauses, and has consumed from a member
C13_Witness ==
    \E k \in 1..Len(stack) :
        /\ HandlerRunning(k)
        /\ \E s \in StreamIds :
               /\ (s - 1) \notin Range(stack[k].group)
               /\ streams[s].pause = {stack[k].pause_id}
               /\ streams[s].lexer # <<>>
        /\ \E m \in StreamIds :
               /\ (m - 1) \in Range(stack[k].group)
               /\ Len(streams[m].lexer) < Len(programs[m])

(***************************************************************************)
(* What parse_expression accepts.                                          *)
(***************************************************************************)
\* the tokens stream s has consumed
Consumed(s) == Take(programs[s], Len(programs[s]) - Len(streams[s].lexer))

\* the bracket depth of token sequence c before its position i
DepthBefore(c, i) ==
    Cardinality({j \in 1..(i - 1) : c[j] \in {"(", "["}})
        - Cardinality({j \in 1..(i - 1) : c[j] \in {")", "]"}})

\* the positions of c outside every bracket pair: a value token, the opening
\* bracket of a parenthesised expression or of an array, an operator
Outer(c) == {i \in 1..Len(c) : DepthBefore(c, i) = 0}

\* c is value, operator, value, ..., value: outside the brackets the values
\* (a number, a string, a bracketed value) and the operators + and -
\* alternate, from a value to a value
ValuesAndOperators(c) ==
    /\ Cardinality(Outer(c)) % 2 = 1
    /\ \A i \in Outer(c) :
           IF Cardinality({j \in Outer(c) : j <= i}) % 2 = 1
           THEN c[i] \in Numbers \cup Strings \cup {"(", "["}
           ELSE c[i] \in {"+", "-"}

\* C18: when parse_expression returns Ok, what every stream has consumed is
\* one value per iteration of the loop, each but the last followed by the
\* + or - that made the loop go round again: value, operator, ..., value. A
\* stream whose input ends where a value is expected (empty, or ending right
\* after a binary operator) is therefore not accepted.
C18_OneValuePerIteration ==
    (entry = "parse_expression" /\ outcome = "Ok") =>
        \A s \in StreamIds : ValuesAndOperators(Consumed(s))

====
